---- MODULE Spec2Model ----
(***************************************************************************)
(* Model of dangle_equal_angle_200.py (d_angle(n) for equal-angle cevians) *)
(* and of test_rule.py (the standalone verifier).                          *)
(*                                                                         *)
(* Python floats are modelled as fixed-point numbers: the integer v stands *)
(* for the real v / Scale, and every product and quotient is rounded to    *)
(* the nearest multiple of 1 / Scale.  math.tan is computed from the       *)
(* Taylor series of sine and cosine, math.atan as the inverse of that      *)
(* tangent.  theta = pi / (3 (n + 1)) is kept as the quotient it is, a     *)
(* numerator and a denominator, because a double resolves it far below     *)
(* 1 / Scale.  A tolerance is a fixed-point number as well; the default    *)
(* 1e-12 of the code is below the resolution of the model, so every run    *)
(* draws its tolerance from Tols.                                          *)
(***************************************************************************)
EXTENDS Integers, Sequences, FiniteSets, TLC

VARIABLES
  prog,    \* the entry point this run executes: "api", "rule", "driver", "verifier"
  args,    \* its inputs
  pc,      \* its position
  tbl,     \* api: the value returned by precompute_R(n)
  fast,    \* the frame of the running d_angle_fast call
  lst,     \* the frame of the running list_solutions call
  rule,    \* api: the value returned by a_rule(n)
  vals,    \* driver: the list vals
  bad,     \* verifier: the list bad
  out,     \* standard output, one entry per printed line
  file,    \* the b-file: NoneVal until written, then its characters
  main_n,  \* driver, verifier: the loop variable n of main
  status   \* exit status of the process: NoneVal while it runs

vars == <<prog, args, pc, tbl, fast, lst, rule, vals, bad, out, file, main_n, status>>

-----------------------------------------------------------------------------
(* Bounds of the model. *)

MaxN == 5          \* n and max_n range up to MaxN
NegN == 1          \* n ranges down to -NegN
MaxRuleN == 29     \* a_rule is called on 1..MaxRuleN
VerifyMax == 4     \* the verifier's loop runs n = 1..VerifyMax (200 in the code)

-----------------------------------------------------------------------------
(* Fixed-point arithmetic standing for Python's float. *)

Scale == 1000
One == Scale
PI == 3142         \* math.pi
SQRT3 == 1732      \* math.sqrt(3.0)

(* Tolerances: below the resolution of the model, 0.016, and 1.0. *)
Tols == {0, 16, One}

NoneVal == <<>>
Some(v) == <<v>>

Abs(a) == IF a < 0 THEN 0 - a ELSE a

(* a / b rounded to the nearest integer, b # 0. *)
RDiv(a, b) ==
  IF b > 0 THEN (2 * a + b) \div (2 * b)
  ELSE (2 * (0 - a) + (0 - b)) \div (2 * (0 - b))

Mul(a, b) == RDiv(a * b, Scale)
Div(a, b) == RDiv(a * Scale, b)

RECURSIVE Series(_, _, _, _, _)
Series(term, acc, x2, k, last) ==
  IF k >= last THEN acc
  ELSE LET nt == 0 - RDiv(Mul(term, x2), (k + 1) * (k + 2))
       IN Series(nt, acc + nt, x2, k + 2, last)

SinSeries(x) == Series(x, x, Mul(x, x), 1, 13)
CosSeries(x) == Series(One, One, Mul(x, x), 0, 12)

(* The angles of [0, pi/2], and sine and cosine tabulated on them. *)
Angles == 0..(PI \div 2)
SinTable == [x \in Angles |-> SinSeries(x)]
CosTable == [x \in Angles |-> CosSeries(x)]
Sin(x) == SinTable[x]
Cos(x) == CosTable[x]

(* math.tan on [0, pi/2). *)
Tan(x) == Div(Sin(x), Cos(x))

(* math.atan on t >= 0: the largest x of [0, pi/2] with tan(x) <= t. *)
RECURSIVE AtanSearch(_, _, _)
AtanSearch(lo, hi, t) ==
  IF lo >= hi THEN lo
  ELSE LET mid == (lo + hi + 1) \div 2
       IN IF Cos(mid) > 0 /\ Tan(mid) <= t
          THEN AtanSearch(mid, hi, t)
          ELSE AtanSearch(lo, mid - 1, t)

Atan(t) == AtanSearch(0, PI \div 2, t)

(* Python 3 round(a / b) for a >= 0, b > 0: to nearest, halves to even. *)
RoundHalfEven(a, b) ==
  LET q == a \div b
      r == a % b
  IN IF 2 * r > b THEN q + 1
     ELSE IF 2 * r = b THEN q + (q % 2)
     ELSE q

(* k * theta and x / theta, theta = num / den. *)
TimesTheta(k, theta) == RDiv(k * theta.num, theta.den)
OverTheta(x, theta) == RoundHalfEven(x * theta.den, theta.num)

-----------------------------------------------------------------------------
(* precompute_R *)

(* A slip: 3 n for 3 (n + 1). *)
Theta_NoPlusOne(n) == [num |-> PI, den |-> 3 * n]

(* Line 21: theta = pi / (3 (n + 1)). *)
Theta(n) == [num |-> PI, den |-> 3 * (n + 1)]

(* The denominator sqrt(3) - tan(k theta) of R[k]. *)
Denom(k, theta) == SQRT3 - Tan(TimesTheta(k, theta))

(* R[k] = 2 t / (sqrt(3) - t), t = tan(k theta). *)
RofK(k, theta) == Div(2 * Tan(TimesTheta(k, theta)), Denom(k, theta))

(* A slip: the guard n < 0 for n <= 0. *)
Precompute_R_NegGuard(n) ==
  IF n < 0 THEN [raised |-> FALSE, theta |-> NoneVal, R |-> <<>>]
  ELSE LET theta == Theta(n)
       IN IF \E k \in 1..n : Denom(k, theta) = 0
          THEN [raised |-> TRUE, theta |-> Some(theta), R |-> <<>>]
          ELSE [raised |-> FALSE, theta |-> Some(theta),
                R |-> [k \in 0..n |-> IF k = 0 THEN 0 ELSE RofK(k, theta)]]

(* precompute_R(n): "raised" is the ZeroDivisionError of line 25. *)
Precompute_R(n) ==
  IF n <= 0 THEN [raised |-> FALSE, theta |-> NoneVal, R |-> <<>>]
  ELSE LET theta == Theta(n)
       IN IF \E k \in 1..n : Denom(k, theta) = 0
          THEN [raised |-> TRUE, theta |-> Some(theta), R |-> <<>>]
          ELSE [raised |-> FALSE, theta |-> Some(theta),
                R |-> [k \in 0..n |-> IF k = 0 THEN 0 ELSE RofK(k, theta)]]

-----------------------------------------------------------------------------
(* d_angle_fast *)

(* The frame of a call that has not started.  The locals are unbound in    *)
(* Python until assigned; the model holds 0 in them until then.            *)
Frame(n, tol) ==
  [pc |-> "called", n |-> n, tol |-> tol, theta |-> NoneVal, R |-> <<>>,
   i |-> 0, j |-> 0, Ri |-> 0, r_target |-> 0, t |-> 0, x |-> 0, k |-> 0,
   prod |-> 0, count |-> 0, sols |-> <<>>, result |-> NoneVal]

(* Lines 35-43: the early return, the table, count = 0 and the two loop    *)
(* headers up to the first body.                                           *)
FastEnter(f) ==
  IF f.n <= 0 THEN [f EXCEPT !.pc = "returned", !.result = Some(0)]
  ELSE LET p == Precompute_R(f.n)
       IN IF p.raised THEN [f EXCEPT !.pc = "raised", !.theta = p.theta]
          ELSE [f EXCEPT !.pc = "loop", !.theta = p.theta, !.R = p.R,
                         !.count = 0, !.i = 1, !.Ri = p.R[1], !.j = 1]

(* Lines 44-56: one pass through the body of the inner loop. *)
FastBody(f) ==
  LET Rj == f.R[f.j]
      p == Mul(f.Ri, Rj)
      r == Div(One, p)
      t == Div(Mul(r, SQRT3), 2 * One + r)
      x == Atan(t)
      k == OverTheta(x, f.theta[1])
      prod == Mul(Mul(f.Ri, Rj), f.R[k])
  IN IF p = 0 THEN [f EXCEPT !.pc = "raised"]
     ELSE IF r <= 0 THEN [f EXCEPT !.r_target = r]
     ELSE IF t <= 0 THEN [f EXCEPT !.r_target = r, !.t = t]
     ELSE IF ~(1 <= k /\ k <= f.n)
          THEN [f EXCEPT !.r_target = r, !.t = t, !.x = x, !.k = k]
     ELSE IF Abs(prod - One) <= f.tol
          THEN [f EXCEPT !.r_target = r, !.t = t, !.x = x, !.k = k,
                         !.prod = prod, !.count = @ + 1]
     ELSE [f EXCEPT !.r_target = r, !.t = t, !.x = x, !.k = k, !.prod = prod]

(* Lines 41-43 and 58: the next j, the next i with its Ri, or the return. *)
FastAdvance(f) ==
  IF f.pc = "raised" THEN f
  ELSE IF f.j < f.n THEN [f EXCEPT !.j = @ + 1]
  ELSE IF f.i < f.n THEN [f EXCEPT !.i = @ + 1, !.Ri = f.R[f.i + 1], !.j = 1]
  ELSE [f EXCEPT !.pc = "returned", !.result = Some(f.count)]

FastStep(f) == FastAdvance(FastBody(f))

RECURSIVE FastRun(_)
FastRun(f) ==
  IF f.pc = "called" THEN FastRun(FastEnter(f))
  ELSE IF f.pc = "loop" THEN FastRun(FastStep(f))
  ELSE f

(* d_angle_fast(n, tol) as one call: the frame it ends in. *)
D_angle_fast(n, tol) == FastRun(Frame(n, tol))

-----------------------------------------------------------------------------
(* list_solutions *)

(* Lines 66-73. *)
ListEnter(f) ==
  IF f.n <= 0 THEN [f EXCEPT !.pc = "returned", !.result = Some(<<>>)]
  ELSE LET p == Precompute_R(f.n)
       IN IF p.raised THEN [f EXCEPT !.pc = "raised", !.theta = p.theta]
          ELSE [f EXCEPT !.pc = "loop", !.theta = p.theta, !.R = p.R,
                         !.sols = <<>>, !.i = 1, !.Ri = p.R[1], !.j = 1]

(* Line 82: the range check on k. *)
ListInRange(k, n) == 1 <= k /\ k <= n

(* A slip: < for <=. *)
ListVerified_Strict(prod, tol) == Abs(prod - One) < tol

(* A slip: the verification dropped. *)
ListVerified_Always(prod, tol) == TRUE

(* Line 84: the product verification. *)
ListVerified(prod, tol) == Abs(prod - One) <= tol

(* A slip: the triple put in front. *)
ListAppend_Prepend(sols, i, j, k) == <<<<i, j, k>>>> \o sols

(* Line 85: sols.append((i, j, k)). *)
ListAppend(sols, i, j, k) == Append(sols, <<i, j, k>>)

(* Lines 74-85: one pass through the body of the inner loop. *)
ListBody(f) ==
  LET Rj == f.R[f.j]
      p == Mul(f.Ri, Rj)
      r == Div(One, p)
      t == Div(Mul(r, SQRT3), 2 * One + r)
      x == Atan(t)
      k == OverTheta(x, f.theta[1])
      prod == Mul(Mul(f.Ri, Rj), f.R[k])
  IN IF p = 0 THEN [f EXCEPT !.pc = "raised"]
     ELSE IF r <= 0 THEN [f EXCEPT !.r_target = r]
     ELSE IF t <= 0 THEN [f EXCEPT !.r_target = r, !.t = t]
     ELSE IF ~ListInRange(k, f.n)
          THEN [f EXCEPT !.r_target = r, !.t = t, !.x = x, !.k = k]
     ELSE IF ListVerified(prod, f.tol)
          THEN [f EXCEPT !.r_target = r, !.t = t, !.x = x, !.k = k,
                         !.prod = prod, !.sols = ListAppend(@, f.i, f.j, k)]
     ELSE [f EXCEPT !.r_target = r, !.t = t, !.x = x, !.k = k, !.prod = prod]

(* Lines 71-73 and 86. *)
ListAdvance(f) ==
  IF f.pc = "raised" THEN f
  ELSE IF f.j < f.n THEN [f EXCEPT !.j = @ + 1]
  ELSE IF f.i < f.n THEN [f EXCEPT !.i = @ + 1, !.Ri = f.R[f.i + 1], !.j = 1]
  ELSE [f EXCEPT !.pc = "returned", !.result = Some(f.sols)]

ListStep(f) == ListAdvance(ListBody(f))

RECURSIVE ListRun(_)
ListRun(f) ==
  IF f.pc = "called" THEN ListRun(ListEnter(f))
  ELSE IF f.pc = "loop" THEN ListRun(ListStep(f))
  ELSE f

(* list_solutions(n, tol) as one call: the frame it ends in. *)
List_solutions(n, tol) == ListRun(Frame(n, tol))

-----------------------------------------------------------------------------
(* a_rule *)

(* A slip: 10 added to 3n - 2 where 12 is needed. *)
A_rule_Plus10(n) ==
  IF n % 2 = 0 THEN 0
  ELSE (3 * n - 2) + (IF n % 10 = 9 THEN 10 ELSE 0)

(* Lines 95-97. *)
A_rule(n) ==
  IF n % 2 = 0 THEN 0
  ELSE (3 * n - 2) + (IF n % 10 = 9 THEN 12 ELSE 0)

-----------------------------------------------------------------------------
(* write_bfile *)

Digit(d) == CASE d = 0 -> "0" [] d = 1 -> "1" [] d = 2 -> "2" [] d = 3 -> "3"
              [] d = 4 -> "4" [] d = 5 -> "5" [] d = 6 -> "6" [] d = 7 -> "7"
              [] d = 8 -> "8" [] d = 9 -> "9"

(* str(v) of an int, as the sequence of its characters. *)
RECURSIVE Str(_)
Str(v) ==
  IF v < 0 THEN <<"-">> \o Str(0 - v)
  ELSE IF v < 10 THEN <<Digit(v)>>
  ELSE Str(v \div 10) \o <<Digit(v % 10)>>

(* The characters written for vals[m..]: f"{n} {v}\n" per element, n from  *)
(* enumerate(vals, start=1).                                               *)
RECURSIVE BfileFrom(_, _)
BfileFrom(vs, m) ==
  IF m > Len(vs) THEN <<>>
  ELSE Str(m) \o <<" ">> \o Str(vs[m]) \o <<"\n">> \o BfileFrom(vs, m + 1)

(* A slip: enumerate(vals) without start=1. *)
RECURSIVE BfileFromZero(_, _)
BfileFromZero(vs, m) ==
  IF m > Len(vs) THEN <<>>
  ELSE Str(m - 1) \o <<" ">> \o Str(vs[m]) \o <<"\n">>
       \o BfileFromZero(vs, m + 1)

Write_bfile_FromZero(vs) == BfileFromZero(vs, 1)

(* Lines 107-109. *)
Write_bfile(vs) == BfileFrom(vs, 1)

-----------------------------------------------------------------------------
(* list.sort() on triples: ascending in the order of Python tuples. *)

TupleLess(a, b) ==
  \/ a[1] < b[1]
  \/ a[1] = b[1] /\ a[2] < b[2]
  \/ a[1] = b[1] /\ a[2] = b[2] /\ a[3] < b[3]

RECURSIVE Insert(_, _)
Insert(s, e) ==
  IF s = <<>> THEN <<e>>
  ELSE IF TupleLess(e, Head(s)) THEN <<e>> \o s
  ELSE <<Head(s)>> \o Insert(Tail(s), e)

RECURSIVE Sort(_)
Sort(s) == IF s = <<>> THEN <<>> ELSE Insert(Sort(Tail(s)), Head(s))

-----------------------------------------------------------------------------
(* Initial states: one entry point and its inputs. *)

IdleFrame == [Frame(0, 0) EXCEPT !.pc = "idle"]

ApiArgs == [n : (0 - NegN)..MaxN, tol : Tols]
RuleArgs == [n : 1..MaxRuleN]
DriverArgs ==
  [max_n : 1..MaxN, tol : Tols, csv : BOOLEAN, oeis_line : BOOLEAN,
   no_table : BOOLEAN, bfile : BOOLEAN,
   list_triples : {NoneVal} \cup {Some(m) : m \in (0 - NegN)..MaxN}]
VerifierArgs == [tol : Tols]

Init ==
  /\ \/ prog = "api" /\ args \in ApiArgs
     \/ prog = "rule" /\ args \in RuleArgs
     \/ prog = "driver" /\ args \in DriverArgs
     \/ prog = "verifier" /\ args \in VerifierArgs
  /\ pc = "start"
  /\ tbl = NoneVal
  /\ fast = IdleFrame
  /\ lst = IdleFrame
  /\ rule = NoneVal
  /\ vals = <<>>
  /\ bad = <<>>
  /\ out = <<>>
  /\ file = NoneVal
  /\ main_n = 0
  /\ status = NoneVal

-----------------------------------------------------------------------------
(* The functions called one by one: precompute_R(n), d_angle_fast(n, tol), *)
(* list_solutions(n, tol), each loop one body at a time.                   *)

ApiPrecompute ==
  /\ prog = "api" /\ pc = "start"
  /\ tbl' = Some(Precompute_R(args.n))
  /\ pc' = "call_fast"
  /\ UNCHANGED <<prog, args, fast, lst, rule, vals, bad, out, file, main_n, status>>

ApiCallFast ==
  /\ prog = "api" /\ pc = "call_fast"
  /\ fast' = FastEnter(Frame(args.n, args.tol))
  /\ pc' = "in_fast"
  /\ UNCHANGED <<prog, args, tbl, lst, rule, vals, bad, out, file, main_n, status>>

FastIter ==
  /\ prog = "api" /\ pc = "in_fast" /\ fast.pc = "loop"
  /\ fast' = FastStep(fast)
  /\ UNCHANGED <<prog, args, pc, tbl, lst, rule, vals, bad, out, file, main_n, status>>

ApiCallList ==
  /\ prog = "api" /\ pc = "in_fast" /\ fast.pc \in {"returned", "raised"}
  /\ IF fast.pc = "raised"
     THEN pc' = "crashed" /\ status' = Some(1) /\ lst' = lst
     ELSE /\ lst' = ListEnter(Frame(args.n, args.tol))
          /\ pc' = "in_list"
          /\ status' = status
  /\ UNCHANGED <<prog, args, tbl, fast, rule, vals, bad, out, file, main_n>>

ListIter ==
  /\ prog = "api" /\ pc = "in_list" /\ lst.pc = "loop"
  /\ lst' = ListStep(lst)
  /\ UNCHANGED <<prog, args, pc, tbl, fast, rule, vals, bad, out, file, main_n, status>>

ApiDone ==
  /\ prog = "api" /\ pc = "in_list" /\ lst.pc \in {"returned", "raised"}
  /\ IF lst.pc = "raised"
     THEN pc' = "crashed" /\ status' = Some(1)
     ELSE pc' = "done" /\ status' = Some(0)
  /\ UNCHANGED <<prog, args, tbl, fast, lst, rule, vals, bad, out, file, main_n>>

RuleCall ==
  /\ prog = "rule" /\ pc = "start"
  /\ rule' = Some(A_rule(args.n))
  /\ pc' = "done"
  /\ UNCHANGED <<prog, args, tbl, fast, lst, vals, bad, out, file, main_n, status>>

-----------------------------------------------------------------------------
(* main of dangle_equal_angle_200.py.  A printed line is a tuple: its kind *)
(* and the values formatted into it.                                       *)

(* Lines 123-126: vals = [], the table header, the loop header. *)
DriverStart ==
  /\ prog = "driver" /\ pc = "start"
  /\ vals' = <<>>
  /\ out' = IF ~args.no_table THEN <<<<"header">>>> ELSE <<>>
  /\ IF 1 <= args.max_n THEN main_n' = 1 /\ pc' = "loop"
                        ELSE main_n' = main_n /\ pc' = "post"
  /\ UNCHANGED <<prog, args, tbl, fast, lst, rule, bad, file, status>>

(* Lines 126-131: one pass through the loop body. *)
DriverRow ==
  /\ prog = "driver" /\ pc = "loop"
  /\ LET fr == D_angle_fast(main_n, args.tol)
         d == fr.result[1]
         r == A_rule(main_n)
     IN IF fr.pc = "raised"
        THEN /\ pc' = "crashed" /\ status' = Some(1)
             /\ UNCHANGED <<vals, out, main_n>>
        ELSE /\ vals' = Append(vals, d)
             /\ out' = IF ~args.no_table
                       THEN Append(out, <<"row", main_n, d, r,
                                          IF d = r THEN "OK" ELSE "DIFF">>)
                       ELSE out
             /\ IF main_n < args.max_n
                THEN main_n' = main_n + 1 /\ pc' = "loop"
                ELSE main_n' = main_n /\ pc' = "post"
             /\ status' = status
  /\ UNCHANGED <<prog, args, tbl, fast, lst, rule, bad, file>>

CsvLines(vs) == [m \in 1..Len(vs) |-> <<"csv", m, vs[m]>>]
OeisLines(vs) == <<<<"oeis_title">>, <<"oeis_data", vs>>>>
TripleLines(N, fr, tol) ==
  <<<<"triples_title", N, tol, Len(fr.result[1])>>>>
  \o [m \in 1..Len(fr.result[1]) |-> <<"triple", Sort(fr.result[1])[m]>>]
  \o <<<<"triples_rule", N, A_rule(N)>>>>

(* Lines 133-148: the CSV lines, the OEIS line, the listing of triples. *)
DriverPost ==
  /\ prog = "driver" /\ pc = "post"
  /\ LET o1 == IF args.csv THEN out \o CsvLines(vals) ELSE out
         o2 == IF args.oeis_line THEN o1 \o OeisLines(vals) ELSE o1
         N == args.list_triples[1]
         fr == List_solutions(N, args.tol)
     IN IF args.list_triples = NoneVal
        THEN out' = o2 /\ pc' = "bfile" /\ status' = status
        ELSE IF fr.pc = "raised"
        THEN out' = o2 /\ pc' = "crashed" /\ status' = Some(1)
        ELSE /\ out' = o2 \o TripleLines(N, fr, args.tol)
             /\ pc' = "bfile"
             /\ status' = status
  /\ UNCHANGED <<prog, args, tbl, fast, lst, rule, vals, bad, file, main_n>>

(* Lines 150-152 and the end of main; open() of line 107 may fail. *)
DriverBfile ==
  /\ prog = "driver" /\ pc = "bfile"
  /\ IF args.bfile
     THEN \E opened \in BOOLEAN :
            IF opened
            THEN /\ file' = Some(Write_bfile(vals))
                 /\ out' = Append(out, <<"wrote">>)
                 /\ pc' = "done" /\ status' = Some(0)
            ELSE /\ pc' = "crashed" /\ status' = Some(1)
                 /\ UNCHANGED <<file, out>>
     ELSE pc' = "done" /\ status' = Some(0) /\ UNCHANGED <<file, out>>
  /\ UNCHANGED <<prog, args, tbl, fast, lst, rule, vals, bad, main_n>>

-----------------------------------------------------------------------------
(* main of test_rule.py. *)

(* Lines 4-5. *)
VerifierStart ==
  /\ prog = "verifier" /\ pc = "start"
  /\ bad' = <<>>
  /\ main_n' = 1
  /\ pc' = "loop"
  /\ UNCHANGED <<prog, args, tbl, fast, lst, rule, vals, out, file, status>>

(* A slip: the loop left at the first mismatch. *)
VerifierCompare_FailFast ==
  /\ prog = "verifier" /\ pc = "loop"
  /\ LET fr == D_angle_fast(main_n, args.tol)
         d == fr.result[1]
         r == A_rule(main_n)
     IN IF fr.pc = "raised"
        THEN pc' = "crashed" /\ status' = Some(1) /\ UNCHANGED <<bad, main_n>>
        ELSE /\ bad' = IF d # r THEN Append(bad, <<main_n, d, r>>) ELSE bad
             /\ IF main_n < VerifyMax /\ d = r
                THEN main_n' = main_n + 1 /\ pc' = "loop"
                ELSE main_n' = main_n /\ pc' = "report"
             /\ status' = status
  /\ UNCHANGED <<prog, args, tbl, fast, lst, rule, vals, out, file>>

(* Lines 5-9: one pass through the loop body. *)
VerifierCompare ==
  /\ prog = "verifier" /\ pc = "loop"
  /\ LET fr == D_angle_fast(main_n, args.tol)
         d == fr.result[1]
         r == A_rule(main_n)
     IN IF fr.pc = "raised"
        THEN pc' = "crashed" /\ status' = Some(1) /\ UNCHANGED <<bad, main_n>>
        ELSE /\ bad' = IF d # r THEN Append(bad, <<main_n, d, r>>) ELSE bad
             /\ IF main_n < VerifyMax
                THEN main_n' = main_n + 1 /\ pc' = "loop"
                ELSE main_n' = main_n /\ pc' = "report"
             /\ status' = status
  /\ UNCHANGED <<prog, args, tbl, fast, lst, rule, vals, out, file>>

(* Lines 10-12: the next DIFF line. *)
VerifierPrintDiff ==
  /\ prog = "verifier" /\ pc = "report"
  /\ bad # <<>> /\ Len(out) < Len(bad)
  /\ out' = Append(out, <<"DIFF">> \o bad[Len(out) + 1])
  /\ UNCHANGED <<prog, args, pc, tbl, fast, lst, rule, vals, bad, file, main_n, status>>

(* Line 13: raise SystemExit(1). *)
VerifierExit ==
  /\ prog = "verifier" /\ pc = "report"
  /\ bad # <<>> /\ Len(out) = Len(bad)
  /\ status' = Some(1)
  /\ pc' = "exited"
  /\ UNCHANGED <<prog, args, tbl, fast, lst, rule, vals, bad, out, file, main_n>>

(* Line 14 and the end of main. *)
VerifierOk ==
  /\ prog = "verifier" /\ pc = "report"
  /\ bad = <<>>
  /\ out' = Append(out, <<"OK">>)
  /\ status' = Some(0)
  /\ pc' = "done"
  /\ UNCHANGED <<prog, args, tbl, fast, lst, rule, vals, bad, file, main_n>>

-----------------------------------------------------------------------------

Next ==
  \/ ApiPrecompute \/ ApiCallFast \/ FastIter \/ ApiCallList \/ ListIter
  \/ ApiDone \/ RuleCall
  \/ DriverStart \/ DriverRow \/ DriverPost \/ DriverBfile
  \/ VerifierStart \/ VerifierCompare \/ VerifierPrintDiff \/ VerifierExit
  \/ VerifierOk

Spec == Init /\ [][Next]_vars

-----------------------------------------------------------------------------
(* Properties. *)

ApiEnded == prog = "api" /\ pc = "done"

(* The product test of a triple against the table Rt. *)
ProductWithin(Rt, i, j, k, tol) ==
  Abs(Mul(Mul(Rt[i], Rt[j]), Rt[k]) - One) <= tol

(* C2: for every n >= 1, a_rule(n) is 0 when n is even, 3n - 2 when n is   *)
(* odd and n mod 10 is not 9, and 3n + 10 when n is odd and n mod 10 is 9; *)
(* a_rule(1) = 1, a_rule(9) = 37, a_rule(10) = 0, a_rule(19) = 67.         *)
C2_RuleClosedForm ==
  (prog = "rule" /\ pc = "done") =>
    /\ (args.n % 2 = 0) => rule = Some(0)
    /\ (args.n % 2 = 1 /\ args.n % 10 # 9) => rule = Some(3 * args.n - 2)
    /\ (args.n % 2 = 1 /\ args.n % 10 = 9) => rule = Some(3 * args.n + 10)
    /\ (args.n = 1) => rule = Some(1)
    /\ (args.n = 9) => rule = Some(37)
    /\ (args.n = 10) => rule = Some(0)
    /\ (args.n = 19) => rule = Some(67)

C2_Witness == prog = "rule" /\ pc = "done" /\ args.n = 19 /\ rule = Some(67)

(* C3: for every n and tol, the list returned by list_solutions(n, tol)    *)
(* has as many triples as d_angle_fast(n, tol) returns.                    *)
C3_CountEqualsListLength ==
  ApiEnded => fast.result[1] = Len(lst.result[1])

C3_Witness ==
  ApiEnded /\ args.n = 5 /\ fast.result = Some(13) /\ Len(lst.result[1]) = 13

(* C4: every triple (i, j, k) list_solutions has appended has i, j and k   *)
(* in 1..n and |R[i] R[j] R[k] - 1| <= tol for the table R of that n.      *)
C4_TriplesInRangeAndVerified ==
  (prog = "api" /\ lst.pc \in {"loop", "returned"}) =>
    \A q \in 1..Len(lst.sols) :
      LET s == lst.sols[q]
      IN /\ 1 <= s[1] /\ s[1] <= args.n
         /\ 1 <= s[2] /\ s[2] <= args.n
         /\ 1 <= s[3] /\ s[3] <= args.n
         /\ ProductWithin(Precompute_R(args.n).R, s[1], s[2], s[3], args.tol)

C4_Witness ==
  /\ ApiEnded /\ args.n = 3 /\ args.tol = 16
  /\ Len(lst.result[1]) = 7
  /\ lst.result[1][1] = <<1, 2, 3>>

(* C5: for n <= 0, d_angle_fast returns 0 and list_solutions returns the   *)
(* empty list without entering the loop, precompute_R returns an empty     *)
(* table with theta None, and nothing is raised.                           *)
C5_NonPositiveN ==
  (prog = "api" /\ args.n <= 0) =>
    /\ pc # "crashed"
    /\ tbl # NoneVal =>
         tbl[1] = [raised |-> FALSE, theta |-> NoneVal, R |-> <<>>]
    /\ fast.pc \in {"idle", "returned"}
    /\ fast.pc = "returned" => fast.result = Some(0)
    /\ lst.pc \in {"idle", "returned"}
    /\ lst.pc = "returned" => lst.result = Some(<<>>)
    /\ fast.i = 0 /\ fast.j = 0 /\ lst.i = 0 /\ lst.j = 0
    /\ pc = "done" => fast.pc = "returned" /\ lst.pc = "returned"

C5_Witness ==
  /\ ApiEnded /\ args.n = 0
  /\ fast.result = Some(0) /\ lst.result = Some(<<>>)
  /\ tbl[1].theta = NoneVal

(* The exhaustive search over the table Rt of n: the triples of {1..n}^3   *)
(* that pass the product test.                                             *)
BruteTriples(Rt, m, tol) ==
  {s \in (1..m) \X (1..m) \X (1..m) : ProductWithin(Rt, s[1], s[2], s[3], tol)}

(* C6: for every n >= 1 and tol, d_angle_fast(n, tol) is the number of     *)
(* triples of {1..n}^3 with |R[i] R[j] R[k] - 1| <= tol: the one candidate *)
(* k tried per pair (i, j) never misses a triple that passes the test.     *)
C6_FastEqualsExhaustive ==
  (ApiEnded /\ args.n >= 1) =>
    fast.result[1] = Cardinality(BruteTriples(fast.R, args.n, args.tol))

(* The DIFF lines a run of the verifier must print: the n of 1..VerifyMax  *)
(* on which d_angle_fast and a_rule differ.                                *)
Mismatching ==
  {m \in 1..VerifyMax : D_angle_fast(m, args.tol).result[1] # A_rule(m)}

(* C7: the verifier evaluates every n before deciding; with a mismatch it  *)
(* prints one DIFF line per mismatching n and only then exits with status  *)
(* 1; without one it prints the OK line and its status is not non-zero.    *)
C7_VerifierReportsAll ==
  (prog = "verifier") =>
    /\ out # <<>> => pc \in {"report", "exited", "done"}
    /\ pc \in {"report", "exited", "done"} =>
         /\ main_n = VerifyMax
         /\ {bad[q][1] : q \in 1..Len(bad)} = Mismatching
         /\ Len(bad) = Cardinality(Mismatching)
    /\ status = Some(1) =>
         /\ Mismatching # {}
         /\ Len(out) = Cardinality(Mismatching)
         /\ {out[q][2] : q \in 1..Len(out)} = Mismatching
         /\ \A q \in 1..Len(out) : out[q][1] = "DIFF"
    /\ status = Some(0) => Mismatching = {} /\ out = <<<<"OK">>>>
    /\ pc \in {"exited", "done"} => status \in {Some(0), Some(1)}
    /\ pc \in {"start", "loop", "report"} => status = NoneVal

C7_Witness ==
  /\ prog = "verifier" /\ pc = "exited" /\ status = Some(1)
  /\ Len(out) >= 2
  /\ out[1][1] = "DIFF" /\ out[1][2] = 1
  /\ out[2][1] = "DIFF" /\ out[2][2] = 3

C7_WitnessOk ==
  prog = "verifier" /\ pc = "done" /\ status = Some(0) /\ out = <<<<"OK">>>>

(* Reading a b-file back: its lines, the fields of a line, int(). *)
RECURSIVE SplitAt(_, _, _)
SplitAt(cs, sep, cur) ==
  IF cs = <<>> THEN (IF cur = <<>> THEN <<>> ELSE <<cur>>)
  ELSE IF Head(cs) = sep THEN <<cur>> \o SplitAt(Tail(cs), sep, <<>>)
  ELSE SplitAt(Tail(cs), sep, Append(cur, Head(cs)))

DigitValue(c) == CHOOSE d \in 0..9 : Digit(d) = c

RECURSIVE ParseInt(_)
ParseInt(cs) ==
  IF Len(cs) = 1 THEN DigitValue(cs[1])
  ELSE 10 * ParseInt(SubSeq(cs, 1, Len(cs) - 1)) + DigitValue(cs[Len(cs)])

(* C8: write_bfile(vals, path) writes len(vals) lines, the m-th being      *)
(* "<m> <vals[m-1]>" and a newline, nothing else; the second fields parse  *)
(* back to vals.  In the driver vals holds d_angle_fast(n) for n = 1 to    *)
(* max_n in ascending order, so the file has max_n lines.                  *)
C8_BfileRoundTrip ==
  (prog = "driver" /\ pc = "done" /\ args.bfile) =>
    /\ file # NoneVal
    /\ LET cs == file[1]
           ls == SplitAt(cs, "\n", <<>>)
       IN /\ Len(ls) = Len(vals)
          /\ Len(ls) = args.max_n
          /\ cs # <<>> => cs[Len(cs)] = "\n"
          /\ Cardinality({q \in 1..Len(cs) : cs[q] = "\n"}) = Len(vals)
          /\ \A m \in 1..Len(ls) :
               LET fs == SplitAt(ls[m], " ", <<>>)
               IN /\ Len(fs) = 2
                  /\ ParseInt(fs[1]) = m
                  /\ ParseInt(fs[2]) = vals[m]
                  /\ vals[m] = D_angle_fast(m, args.tol).result[1]
                  /\ Len(ls[m]) = Len(fs[1]) + 1 + Len(fs[2])

C8_Witness ==
  /\ prog = "driver" /\ pc = "done" /\ args.bfile /\ args.max_n = 5
  /\ vals = <<1, 0, 7, 0, 13>>
  /\ file = Some(<<"1", " ", "1", "\n", "2", " ", "0", "\n", "3", " ", "7",
                   "\n", "4", " ", "0", "\n", "5", " ", "1", "3", "\n">>)

(* C9: the list of list_solutions is in discovery order: the (i, j) of     *)
(* successive triples increase strictly in lexicographic order, so a pair  *)
(* (i, j) gives at most one triple and the list has at most n * n entries. *)
C9_DiscoveryOrder ==
  (prog = "api" /\ lst.pc \in {"loop", "returned"}) =>
    /\ \A q \in 1..(Len(lst.sols) - 1) :
         \/ lst.sols[q][1] < lst.sols[q + 1][1]
         \/ /\ lst.sols[q][1] = lst.sols[q + 1][1]
            /\ lst.sols[q][2] < lst.sols[q + 1][2]
    /\ Len(lst.sols) <= args.n * args.n
    /\ lst.pc = "returned" => lst.result = Some(lst.sols)

C9_Witness ==
  /\ ApiEnded /\ args.n = 3 /\ args.tol = 16
  /\ lst.result[1][3] = <<2, 1, 3>> /\ lst.result[1][4] = <<2, 2, 2>>
  /\ lst.result[1][7] = <<3, 2, 1>>

(* The frame f has run the body of its loop at least once. *)
BodyRan(f) ==
  \/ f.pc = "returned" /\ f.n >= 1
  \/ f.pc = "loop" /\ (f.i > 1 \/ f.j > 1)

(* C10: for n >= 1, precompute_R(n) returns theta = pi / (3 (n + 1)) and a *)
(* table with k theta < pi / 3, a non-zero denominator sqrt(3) - tan(k     *)
(* theta) and R[k] > 0 for k in 1..n; hence the target r = 1 / (R[i] R[j]) *)
(* is positive for every pair (i, j) in d_angle_fast and list_solutions.   *)
C10_TablePositive ==
  (prog = "api" /\ args.n >= 1 /\ tbl # NoneVal) =>
    /\ ~tbl[1].raised
    /\ tbl[1].theta = Some([num |-> PI, den |-> 3 * (args.n + 1)])
    /\ DOMAIN tbl[1].R = 0..args.n
    /\ \A k \in 1..args.n :
         /\ 3 * TimesTheta(k, tbl[1].theta[1]) < PI
         /\ SQRT3 - Tan(TimesTheta(k, tbl[1].theta[1])) > 0
         /\ tbl[1].R[k] > 0
    /\ \A i \in 1..args.n : \A j \in 1..args.n :
         Div(One, Mul(tbl[1].R[i], tbl[1].R[j])) > 0
    /\ fast.pc # "raised" /\ lst.pc # "raised"
    /\ fast.pc \in {"loop", "returned"} => fast.R = tbl[1].R
    /\ lst.pc \in {"loop", "returned"} => lst.R = tbl[1].R
    /\ BodyRan(fast) => fast.r_target > 0 /\ fast.t > 0
    /\ BodyRan(lst) => lst.r_target > 0 /\ lst.t > 0

C10_Witness ==
  /\ ApiEnded /\ args.n = 5
  /\ tbl[1].theta = Some([num |-> PI, den |-> 18])
  /\ tbl[1].R[1] > 0 /\ tbl[1].R[5] > One
  /\ fast.r_target > 0 /\ lst.r_target > 0

====
